---- MODULE Spec2Model ----
(***************************************************************************)
(* Model of the audit execution engine of cisco-netaudit/flask-app:        *)
(* app/modules/audit.py (AuditService) as driven by                        *)
(* app/routes/results.py (results_run) and app/routes/quickaudit.py.       *)
(*                                                                         *)
(* One caller thread submits one audit_task per roster entry to a thread   *)
(* pool and waits for the futures; every task runs the code of audit_task  *)
(* in steps whose boundaries are the accesses to the shared results map    *)
(* and the network operations.                                             *)
(***************************************************************************)
EXTENDS Integers, Sequences, FiniteSets, TLC

(***************************************************************************)
(* Bounds of the model.                                                    *)
(***************************************************************************)
\* longest roster handed to AuditService in the concurrent specification
MaxRoster == 2
\* longest check_list of a roster entry in the single-device specification
MaxChecks == 2
\* handler invocations of one drive loop that are counted and recorded
MaxCalls == 5

(***************************************************************************)
(* Program constants.                                                      *)
(***************************************************************************)
\* start_thread_executor(self, max_workers=8)
DefaultMaxWorkers == 8

\* AUDIT_STATUS_CODES
NOT_RUN == 0
PASS == 1
FAIL == 2
WARN == 3
INFO == 4
ERROR == 5
INCONCLUSIVE == 6

\* Python's None, for the values of the model that are strings
None == "None"

(***************************************************************************)
(* Device ids.  The spelling of an id is what the regular expression of    *)
(* _get_device_fqdn and the address parser of gethostbyaddr read.          *)
(***************************************************************************)
Digits == {"0", "1", "2", "3", "4", "5", "6", "7", "8", "9"}

DigitVal(c) ==
    CASE c = "0" -> 0 [] c = "1" -> 1 [] c = "2" -> 2 [] c = "3" -> 3
      [] c = "4" -> 4 [] c = "5" -> 5 [] c = "6" -> 6 [] c = "7" -> 7
      [] c = "8" -> 8 [] c = "9" -> 9

\* ids a roster may name, and the peer a cross-device request names
RosterIds == {"10.0.0.1", "sw1", "999.1.1.1"}
PeerId == "core1"
Hosts == RosterIds \cup {PeerId}

Chars(device) ==
    CASE device = "10.0.0.1" -> <<"1", "0", ".", "0", ".", "0", ".", "1">>
      [] device = "999.1.1.1" -> <<"9", "9", "9", ".", "1", ".", "1", ".", "1">>
      [] device = "sw1" -> <<"s", "w", "1">>
      [] device = "core1" -> <<"c", "o", "r", "e", "1">>

\* the fields of a character sequence between its dots
RECURSIVE SplitDots(_)
SplitDots(cs) ==
    IF \A k \in 1..Len(cs) : cs[k] # "."
    THEN <<cs>>
    ELSE LET p == CHOOSE k \in 1..Len(cs) :
                      cs[k] = "." /\ \A j \in 1..(k - 1) : cs[j] # "."
         IN <<SubSeq(cs, 1, p - 1)>> \o SplitDots(SubSeq(cs, p + 1, Len(cs)))

\* re.search(r"^\d{1,3}(\.\d{1,3}){3}$", device)
IsDottedQuad(device) ==
    LET fs == SplitDots(Chars(device))
    IN /\ Len(fs) = 4
       /\ \A k \in 1..4 :
            /\ Len(fs[k]) \in 1..3
            /\ \A j \in 1..Len(fs[k]) : fs[k][j] \in Digits

RECURSIVE Decimal(_)
Decimal(ds) ==
    IF ds = <<>> THEN 0
    ELSE 10 * Decimal(SubSeq(ds, 1, Len(ds) - 1)) + DigitVal(ds[Len(ds)])

\* inet_pton(AF_INET, device): the id is an IPv4 address
IsIPv4Address(device) ==
    /\ IsDottedQuad(device)
    /\ \A k \in 1..4 : Decimal(SplitDots(Chars(device))[k]) <= 255

\* the ids of the model the regular expression matches, and those among
\* them that are addresses
DottedQuads == {host \in Hosts : IsDottedQuad(host)}

IPv4Addresses == {host \in Hosts : IsIPv4Address(host)}

(***************************************************************************)
(* Texts a device may answer to a command.  The empty text is the one      *)
(* Python treats as false.                                                 *)
(***************************************************************************)
Texts == {"", "up"}

\* Python truthiness of a captured text
Truthy(text) == text # ""

(***************************************************************************)
(* Check definitions (the files of the checks directory).  A check is the  *)
(* contract of utils/checkprompt.py: the constructor sets REQUESTS and     *)
(* RESULTS, a handler updates RESULTS and posts the next request or clears *)
(* REQUESTS.  A definition is a table of steps; step p holds the request   *)
(* pending at position p, what its handler does to RESULTS, whether the    *)
(* handler raises, and the position the handler moves to (0: REQUESTS is   *)
(* None).  target "self" is the device the instance is bound to.           *)
(***************************************************************************)
Step(target, command, handler, defined, effect, raises, next) ==
    [target |-> target, command |-> command, handler |-> handler,
     defined |-> defined, effect |-> effect, raises |-> raises, next |-> next]

CheckFiles ==
    {"ntp.py", "ios.py", "clock.py", "route.py", "peer.py",
     "bgp.py", "acl.py", "broken.py", "odd.py", "alias.py"}

\* the checks used where the roster or the device id is what varies
CoreFiles == {"ntp.py"}

\* the checks combined into the longer check lists
DriveFiles == {"ntp.py", "ios.py", "peer.py", "bgp.py", "broken.py"}

CheckDefs(file) ==
    CASE file = "ntp.py" ->
           \* one request; the handler reads the output and completes
           [loads |-> TRUE, first |-> 1, steps |-> <<
              Step("self", "show ntp status", "handle_initial", TRUE, "parse", FALSE, 0)>>]
      [] file = "ios.py" ->
           \* asks for the same command twice, with two handlers
           [loads |-> TRUE, first |-> 1, steps |-> <<
              Step("self", "show version", "handle_version", TRUE, "pass", FALSE, 2),
              Step("self", "show version", "handle_again", TRUE, "grade", FALSE, 0)>>]
      [] file = "clock.py" ->
           \* the handler never clears REQUESTS
           [loads |-> TRUE, first |-> 1, steps |-> <<
              Step("self", "show clock", "handle_initial", TRUE, "inconclusive", FALSE, 1)>>]
      [] file = "route.py" ->
           \* after one request, alternates between two distinct requests
           [loads |-> TRUE, first |-> 1, steps |-> <<
              Step("self", "show ip route summary", "handle_summary", TRUE, "pass", FALSE, 2),
              Step("self", "show ip route", "handle_a", TRUE, "keep", FALSE, 3),
              Step("self", "show ip cef", "handle_b", TRUE, "keep", FALSE, 2)>>]
      [] file = "peer.py" ->
           \* asks a peer device twice, then the audited device
           [loads |-> TRUE, first |-> 1, steps |-> <<
              Step(PeerId, "show version", "handle_peer", TRUE, "pass", FALSE, 2),
              Step(PeerId, "show version", "handle_peer_again", TRUE, "keep", FALSE, 3),
              Step("self", "show version", "handle_local", TRUE, "warn", FALSE, 0)>>]
      [] file = "bgp.py" ->
           \* the second handler raises after the first set a result
           [loads |-> TRUE, first |-> 1, steps |-> <<
              Step("self", "show ip bgp summary", "handle_initial", TRUE, "fail", FALSE, 2),
              Step("self", "show ip bgp neighbors", "handle_neighbors", TRUE, "error", TRUE, 0)>>]
      [] file = "acl.py" ->
           \* names a handler the class does not define
           [loads |-> TRUE, first |-> 1, steps |-> <<
              Step("self", "show access-lists", "handle_missing", FALSE, "keep", FALSE, 0)>>]
      [] file = "broken.py" ->
           \* the module raises while it is loaded
           [loads |-> FALSE, first |-> 0, steps |-> <<>>]
      [] file = "alias.py" ->
           \* asks a peer for a command, then the audited device for a command
           \* whose text is the peer's id, a colon and the peer's command
           [loads |-> TRUE, first |-> 1, steps |-> <<
              Step(PeerId, "show version", "handle_peer", TRUE, "pass", FALSE, 2),
              Step("self", PeerId \o ":show version", "handle_local", TRUE, "grade", FALSE, 0)>>]
      [] file = "odd.py" ->
           \* the handler replaces RESULTS by a value that is no mapping
           [loads |-> TRUE, first |-> 1, steps |-> <<
              Step("self", "show inventory", "handle_initial", TRUE, "odd", FALSE, 0)>>]

\* RESULTS as the constructor of a check sets it, and the entry of the shell
FreshResult == [status |-> NOT_RUN, observation |-> "", comments |-> <<>>]

\* a RESULTS value that is not a mapping (it has no .get)
OddResult == [status |-> -1, observation |-> None, comments |-> <<>>]

IsMapping(result) == result.status # -1

\* what a handler makes of RESULTS, given the output it is handed
Effect(effect, result, output) ==
    LET set(st) == [status |-> st, observation |-> output,
                    comments |-> Append(result.comments, effect)]
    IN CASE effect = "keep" -> result
         [] effect = "pass" -> set(PASS)
         [] effect = "fail" -> set(FAIL)
         [] effect = "warn" -> set(WARN)
         [] effect = "error" -> set(ERROR)
         [] effect = "inconclusive" -> set(INCONCLUSIVE)
         [] effect = "parse" -> set(IF output = "up" THEN PASS ELSE FAIL)
         [] effect = "grade" -> set(IF output = "up" THEN INFO ELSE ERROR)
         [] effect = "odd" -> OddResult

\* the value of check_inst.REQUESTS as the triple the drive loop reads
NoRequest == <<>>

Request(inst, device) ==
    IF inst.pos = 0 THEN NoRequest
    ELSE LET st == CheckDefs(inst.file).steps[inst.pos]
         IN <<IF st.target = "self" THEN device ELSE st.target,
              st.command, st.handler>>

\* "no instance": before the first load and after a failed one
NoInstance == [file |-> None, pos |-> 0, RESULTS |-> FreshResult]

\* getattr(module, "CHECK_CLASS")(device, self.context)
NewInstance(file) ==
    [file |-> file, pos |-> CheckDefs(file).first, RESULTS |-> FreshResult]

(***************************************************************************)
(* Fact gatherers (the gather_* functions of the facts directory), keyed   *)
(* "<module>.<name>" as load_facts keys them.                              *)
(***************************************************************************)
GathererIds == <<"hw.model", "os.broken", "os.none", "os.version">>

\* what func(conn) does: "dict" returns the mapping out, "raise" raises,
\* "other" returns a value that is not a dict
GathererDefs(id) ==
    CASE id = "hw.model" ->
           [kind |-> "dict", out |-> [key \in {"model", "version"} |->
                                        IF key = "model" THEN "c9300" ELSE "17.3"]]
      [] id = "os.broken" ->
           [kind |-> "raise", out |-> [key \in {"uptime"} |-> "1d"]]
      [] id = "os.none" ->
           [kind |-> "other", out |-> [key \in {"serial"} |-> "x"]]
      [] id = "os.version" ->
           [kind |-> "dict", out |-> [key \in {"version"} |-> "15.2"]]

(***************************************************************************)
(* Session credentials of a roster entry.                                  *)
(***************************************************************************)
DirectSession ==
    [network_username |-> "netops", network_password |-> "pw",
     jumphost_ip |-> None, jumphost_username |-> None, jumphost_password |-> None]

JumpSession ==
    [network_username |-> "netops", network_password |-> "pw",
     jumphost_ip |-> "192.0.2.9", jumphost_username |-> "jump",
     jumphost_password |-> "jpw"]

\* a stored session with a jumphost address and no jumphost credentials
HalfJumpSession ==
    [network_username |-> "netops", network_password |-> "pw",
     jumphost_ip |-> "192.0.2.9", jumphost_username |-> None,
     jumphost_password |-> None]

\* the proxy argument obt_conn builds: the jumphost's hostname, or None
Proxy(session) ==
    IF session.jumphost_ip # None THEN session.jumphost_ip ELSE None

(***************************************************************************)
(* State.                                                                  *)
(***************************************************************************)
VARIABLES
    devices,      \* self.devices: the roster, a sequence of entries
    max_workers,  \* the max_workers argument of start_thread_executor
    gatherers,    \* self.gatherers: the ids of the loaded gatherers, in order
    net,          \* how the endpoints behave (see Outcomes)
    results,      \* self.results: device id -> device audit result
    futures,      \* self.futures: per roster index, the state of its future
    task,         \* per roster index, the locals of its audit_task call
    trace,        \* per roster index, what the task did (history)
    caller,       \* where the thread that calls the service is
    views_db,     \* current_app.views_db: view name -> its checks and devices
    sessions_db,  \* device id -> the session stored for it, if any
    results_db,   \* the stores under RESULTS_DIR: device id -> stored record
    request       \* the request the routes serve, with the stores it found

\* the stores of the application and the request
appvars == <<views_db, sessions_db, results_db, request>>

vars == <<devices, max_workers, gatherers, net, results, futures, task, trace, caller, appvars>>

Tasks == 1..Len(devices)

\* the "status" key of a result that has none yet
NoStatus == -1

\* a connection object: the host it was opened to and its number in the task
NoConn == [host |-> None, n |-> 0]

\* a raised exception, as the outcome of an operation
Raises == "<raises>"

\* An entry of the history of a task.  op is "connect", "disconnect", "send",
\* "handler", "load" or "gather"; host and n name the connection; text is
\* what the operation gave (an output, "ok", or Raises); file, target and
\* cmd name the check and the request being served, None outside a drive
\* loop; cmd is also the command of a send and the id of a gatherer.
Ev0 == [op |-> None, host |-> None, n |-> 0, text |-> None, user |-> None,
        proxy |-> None, file |-> None, target |-> None, cmd |-> None, pos |-> 0]

ConnectEv(host, ok, n, session, file, target, cmd) ==
    [Ev0 EXCEPT !.op = "connect", !.host = host, !.n = IF ok THEN n ELSE 0,
                !.text = IF ok THEN "ok" ELSE Raises,
                !.user = session.network_username, !.proxy = Proxy(session),
                !.file = file, !.target = target, !.cmd = cmd]

DisconnectEv(conn, raises, file, target, cmd) ==
    [Ev0 EXCEPT !.op = "disconnect", !.host = conn.host, !.n = conn.n,
                !.text = IF raises THEN Raises ELSE "ok",
                !.file = file, !.target = target, !.cmd = cmd]

SendEv(conn, command, text, file, target) ==
    [Ev0 EXCEPT !.op = "send", !.host = conn.host, !.n = conn.n, !.text = text,
                !.file = file, !.target = target, !.cmd = command]

HandlerEv(file, pos, target, command, output) ==
    [Ev0 EXCEPT !.op = "handler", !.text = output, !.file = file,
                !.target = target, !.cmd = command, !.pos = pos]

LoadEv(file, ok, k) ==
    [Ev0 EXCEPT !.op = "load", !.text = IF ok THEN "ok" ELSE Raises,
                !.file = file, !.pos = k]

GatherEv(conn, id) ==
    [Ev0 EXCEPT !.op = "gather", !.host = conn.host, !.n = conn.n, !.cmd = id]

(***************************************************************************)
(* The endpoints.  With net.stable every endpoint answers the same way     *)
(* each time it is asked; otherwise every operation may end in any of its  *)
(* outcomes.                                                               *)
(***************************************************************************)
AnyNet == [stable |-> FALSE, down |-> {}, answer |-> [h \in Hosts |-> ""],
           rdns |-> FALSE, closeFault |-> FALSE, hang |-> {}]

\* endpoints that answer the same way each time: the hosts of down refuse
\* the session, host h answers every command with answer[h] (or raises)
Stable(down, answer, rdns, closeFault) ==
    [stable |-> TRUE, down |-> down, answer |-> answer, rdns |-> rdns,
     closeFault |-> closeFault, hang |-> {}]

\* the endpoints of plan, except that the session setup to the hosts of
\* hang never returns: GenericHandler(...) blocks in network I/O
Hanging(plan, hang) == [plan EXCEPT !.hang = hang]

\* GenericHandler(hostname=host, ...): TRUE when the session is established
ConnectOutcomes(host) ==
    IF host \in DottedQuads \ IPv4Addresses THEN {FALSE}
    ELSE IF net.stable THEN {host \notin net.down}
    ELSE BOOLEAN

\* conn.sendCommand(command) on a connection to host
SendOutcomes(host, command) ==
    IF ~net.stable THEN Texts \cup {Raises}
    ELSE IF host \in DOMAIN net.answer THEN {net.answer[host]}
    ELSE {Raises}

\* the host whose connection a request is sent over: the target of a
\* cross-device request, else the host conn is connected to by now
AnsweringHost(device, conn, req_device) ==
    IF req_device # device THEN req_device ELSE conn.host

\* the running configuration's domain line, as far as the regular
\* expression of _get_device_fqdn tells texts apart
DomainLine == "ip domain name corp.net"

ConfigOutcomes(host) ==
    IF net.stable
    THEN {IF net.answer[host] = "up" THEN DomainLine ELSE net.answer[host]}
    ELSE {DomainLine, "", Raises}

\* re.search(r'^ip domain[- ]name\s+(\S+)', text, re.M): group 1, or None
DomainMatch(text) == IF text = DomainLine THEN "corp.net" ELSE None

\* conn.base_prompt
BasePrompt(host) == "rtr-" \o host

\* socket.gethostbyaddr(device): a name, herror, or gaierror for an id that
\* is no address
ReverseName(device) == "host-" \o device \o ".example.net"

DnsOutcomes(device) ==
    IF device \notin IPv4Addresses THEN {"gaierror"}
    ELSE IF net.stable THEN {IF net.rdns THEN "name" ELSE "herror"}
    ELSE {"name", "herror"}

\* conn.disconnect(): TRUE when it raises
CloseOutcomes(host) ==
    IF net.stable THEN {net.closeFault} ELSE BOOLEAN

(***************************************************************************)
(* Helpers on sequences and mappings.                                      *)
(***************************************************************************)
Range(seq) == {seq[k] : k \in 1..Len(seq)}

\* all sequences over S of a length in lo..hi
SeqsOf(S, lo, hi) == UNION {[1..m -> S] : m \in lo..hi}

\* map[key] = value
Put(map, key, value) == (key :> value) @@ map

\* dict.update(other)
Update(map, other) == other @@ map

EmptyMap == [key \in {} |-> ""]

(***************************************************************************)
(* Initial states: the service as constructed by results_run and           *)
(* quickaudit_run, which hand every device of the request the same         *)
(* check_list; the device list is the request's and may repeat an id.      *)
(***************************************************************************)
Entry(device, check_list, session) ==
    [device |-> device, check_list |-> check_list, session |-> session]

Roster(ids, check_list, session) ==
    [k \in 1..Len(ids) |-> Entry(ids[k], check_list, session)]

NewTask ==
    [pc |-> "idle", conn |-> NoConn, k |-> 1, inst |-> NoInstance,
     last |-> NoRequest, calls |-> 0, opens |-> 0, raisedAt |-> 0]

\* no request of the routes is being served
NoCall == [route |-> None, devices |-> <<>>, view |-> None, stored |-> EmptyMap]

InitWith(ids, check_list, session, gs, workers, network) ==
    /\ devices = Roster(ids, check_list, session)
    /\ views_db = EmptyMap
    /\ sessions_db = EmptyMap
    /\ results_db = EmptyMap
    /\ request = NoCall
    /\ max_workers = workers
    /\ gatherers = gs
    /\ net = network
    /\ results = EmptyMap
    /\ futures = <<>>
    /\ task = [i \in 1..Len(ids) |-> NewTask]
    /\ trace = [i \in 1..Len(ids) |-> <<>>]
    /\ caller = [pc |-> "start", seen |-> {}]

\* the registries load_facts can build from the gatherers above: the modules
\* in the order os.listdir gives them, the functions of a module by name
Registries ==
    LET at(id) == CHOOSE g \in 1..Len(GathererIds) : GathererIds[g] = id
    IN {reg \in SeqsOf(Range(GathererIds), 0, Len(GathererIds)) :
          /\ \A a, b \in 1..Len(reg) : a < b => reg[a] # reg[b]
          /\ \A a, b \in 1..Len(reg) :
                (a < b /\ reg[a] # "hw.model" /\ reg[b] # "hw.model") =>
                    at(reg[a]) < at(reg[b])
          /\ \A a \in 1..Len(reg) : reg[a] = "hw.model" => a \in {1, Len(reg)}}

\* a deployment: the stored session and the facts directory
Deployments ==
    {<<DirectSession, <<>> >>, <<JumpSession, GathererIds>>, <<HalfJumpSession, <<>> >>}

\* several devices, few checks: the concurrent runs
Init ==
    \E ids \in SeqsOf({"10.0.0.1", "sw1"}, 1, MaxRoster),
       check_list \in SeqsOf(CoreFiles, 0, 1),
       workers \in {1, DefaultMaxWorkers} :
        InitWith(ids, check_list, DirectSession, <<>>, workers, AnyNet)

\* several devices whose endpoints answer the same way each time
StablePlans ==
    {Stable(down, [h \in Hosts |-> IF h = "sw1" THEN x ELSE y], FALSE, FALSE) :
        down \in SUBSET {"sw1"}, x \in Texts \cup {Raises}, y \in Texts \cup {Raises}}

InitStable ==
    \E ids \in SeqsOf({"10.0.0.1", "sw1"}, 1, MaxRoster),
       check_list \in SeqsOf(CoreFiles, 1, 1),
       plan \in StablePlans :
        InitWith(ids, check_list, DirectSession, <<>>, DefaultMaxWorkers, plan)

\* the pool: rosters up to MaxRoster under pools of one, two and the default
\* number of workers, the device sw1 reachable or not
PoolPlans ==
    {Stable(down, [h \in Hosts |-> "up"], FALSE, FALSE) : down \in SUBSET {"sw1"}}

InitPool ==
    \E ids \in SeqsOf({"10.0.0.1", "sw1"}, 1, MaxRoster),
       check_list \in SeqsOf(CoreFiles, 0, 1),
       workers \in {1, 2, DefaultMaxWorkers},
       plan \in PoolPlans :
        InitWith(ids, check_list, DirectSession, <<>>, workers, plan)

\* the checks of the runs in which a device may never answer
LiveFiles == {"ntp.py", "route.py"}

\* rosters in which the session setup to sw1 may block for ever
InitLive ==
    \E ids \in SeqsOf({"10.0.0.1", "sw1"}, 1, MaxRoster),
       check_list \in SeqsOf(LiveFiles, 0, 1),
       workers \in {1, 2},
       down \in SUBSET {"10.0.0.1"},
       hang \in SUBSET {"sw1"} :
        InitWith(ids, check_list, DirectSession, <<>>, workers,
                 Hanging(Stable(down, [h \in Hosts |-> "up"], FALSE, FALSE), hang))

\* one device: the check lists up to MaxChecks over DriveFiles and every
\* single check on a named device (the drive loop), and the short check
\* lists on the numeric ids under both deployments (the hostname)
InitOne ==
    \/ \E check_list \in SeqsOf(DriveFiles, 0, MaxChecks) \cup SeqsOf(CheckFiles, 1, 1) :
         InitWith(<<"sw1">>, check_list, JumpSession, GathererIds,
                  DefaultMaxWorkers, AnyNet)
    \/ \E dep \in Deployments, id \in {"10.0.0.1", "999.1.1.1"},
          check_list \in SeqsOf(CoreFiles, 0, 1) :
         InitWith(<<id>>, check_list, dep[1], dep[2], DefaultMaxWorkers, AnyNet)
    \/ \E registry \in Registries, check_list \in SeqsOf(CoreFiles, 0, 1) :
         InitWith(<<"sw1">>, check_list, DirectSession, registry,
                  DefaultMaxWorkers, AnyNet)

(***************************************************************************)
(* The caller: start_thread_executor and wait_for_completion.              *)
(***************************************************************************)
\* start_thread_executor: one future per roster entry, in roster order
StartThreadExecutor ==
    /\ caller.pc = "start"
    /\ futures' = [i \in Tasks |-> "pending"]
    /\ caller' = [caller EXCEPT !.pc = "wait"]
    /\ UNCHANGED <<appvars, devices, max_workers, gatherers, net, results, task, trace>>

\* one round of "for future in as_completed(self.futures): future.result()":
\* a completed future is handed over; result() re-raises what its task raised
WaitNext ==
    /\ caller.pc = "wait"
    /\ \E i \in Tasks \ caller.seen :
         /\ futures[i] \in {"finished", "raised"}
         /\ caller' = IF futures[i] = "raised"
                      THEN [pc |-> "raised", seen |-> caller.seen \cup {i}]
                      ELSE [pc |-> "wait", seen |-> caller.seen \cup {i}]
    /\ UNCHANGED <<appvars, devices, max_workers, gatherers, net, results, futures, task, trace>>

\* as_completed is exhausted: wait_for_completion logs and returns
WaitReturn ==
    /\ caller.pc = "wait"
    /\ caller.seen = Tasks
    /\ caller' = [caller EXCEPT !.pc = "returned"]
    /\ UNCHANGED <<appvars, devices, max_workers, gatherers, net, results, futures, task, trace>>

(***************************************************************************)
(* audit_task, one action per step.                                        *)
(***************************************************************************)
Running == {i \in Tasks : futures # <<>> /\ futures[i] = "running"}

\* the task of entry i ends: its future completes, normally ("finished")
\* or with the exception that left audit_task ("raised")
Ended(i, how) == futures' = [futures EXCEPT ![i] = how]

Log(i, events) == trace' = [trace EXCEPT ![i] = trace[i] \o events]

\* as Shell, but the checks mapping starts empty and is filled as checks end
Shell_NoChecks(device, check_list) ==
    [login |-> None, hostname |-> device, raw |-> EmptyMap, facts |-> EmptyMap,
     checks |-> EmptyMap, status |-> NoStatus]

\* the result shell of lines 149-156
Shell(device, check_list) ==
    [login |-> None, hostname |-> device, raw |-> EmptyMap, facts |-> EmptyMap,
     checks |-> [file \in Range(check_list) |-> FreshResult],
     status |-> NoStatus]

\* as TaskStart, but a queued work item starts whether or not a worker is free
TaskStart_Unbounded(i) ==
    /\ futures # <<>>
    /\ futures[i] = "pending"
    /\ \A j \in 1..(i - 1) : futures[j] # "pending"
    /\ futures' = [futures EXCEPT ![i] = "running"]
    /\ task' = [task EXCEPT ![i].pc = "shell"]
    /\ UNCHANGED <<appvars, devices, max_workers, gatherers, net, results, trace, caller>>

\* a pool worker takes the oldest queued work item; at most max_workers
\* work items run at a time
TaskStart(i) ==
    /\ futures # <<>>
    /\ futures[i] = "pending"
    /\ \A j \in 1..(i - 1) : futures[j] # "pending"
    /\ Cardinality(Running) < max_workers
    /\ futures' = [futures EXCEPT ![i] = "running"]
    /\ task' = [task EXCEPT ![i].pc = "shell"]
    /\ UNCHANGED <<appvars, devices, max_workers, gatherers, net, results, trace, caller>>

\* lines 145-156: audit_task stores the result shell under the device id
AllocShell(i) ==
    /\ task[i].pc = "shell"
    /\ results' = Put(results, devices[i].device,
                      Shell(devices[i].device, devices[i].check_list))
    /\ task' = [task EXCEPT ![i].pc = "connect"]
    /\ UNCHANGED <<appvars, devices, max_workers, gatherers, net, futures, trace, caller>>

\* obt_conn(device, session) of line 158 and the login flag of line 160; the
\* call does not return while the host does not answer
Connect(i) ==
    /\ task[i].pc = "connect"
    /\ devices[i].device \notin net.hang
    /\ \E ok \in ConnectOutcomes(devices[i].device) :
         LET device == devices[i].device
             session == devices[i].session
             n == IF ok THEN task[i].opens + 1 ELSE 0
             conn == IF ok THEN [host |-> device, n |-> n] ELSE NoConn
         IN /\ task' = [task EXCEPT ![i].pc = "resolve", ![i].conn = conn,
                                    ![i].opens = IF ok THEN n ELSE @]
            /\ results' = [results EXCEPT ![device].login =
                                IF conn # NoConn THEN "True" ELSE "False"]
            /\ Log(i, <<ConnectEv(device, ok, n, session, None, None, None)>>)
    /\ UNCHANGED <<appvars, devices, max_workers, gatherers, net, futures, caller>>

\* _get_device_fqdn(device, conn) of line 161; only socket.herror is caught
ResolveHostname(i) ==
    /\ task[i].pc = "resolve"
    /\ LET device == devices[i].device
           conn == task[i].conn
           next == IF conn = NoConn THEN "unreachable" ELSE "facts"
           named(name) ==
               /\ results' = [results EXCEPT ![device].hostname = name]
               /\ task' = [task EXCEPT ![i].pc = next]
               /\ UNCHANGED futures
           faulted ==
               /\ task' = [task EXCEPT ![i].pc = "raised", ![i].raisedAt = 161]
               /\ Ended(i, "raised")
               /\ UNCHANGED results
       IN IF device \notin DottedQuads
          THEN named(device) /\ UNCHANGED trace
          ELSE \E dns \in DnsOutcomes(device) :
                 CASE dns = "name" -> named(ReverseName(device)) /\ UNCHANGED trace
                   [] dns = "gaierror" -> faulted /\ UNCHANGED trace
                   [] dns = "herror" ->
                        IF conn = NoConn
                        THEN named(device) /\ UNCHANGED trace
                        ELSE \E text \in ConfigOutcomes(conn.host) :
                               /\ Log(i, <<SendEv(conn,
                                              "show running-config | include domain",
                                              text, None, None)>>)
                               /\ IF text = Raises THEN faulted
                                  ELSE IF DomainMatch(text) # None
                                  THEN named(BasePrompt(conn.host) \o "."
                                             \o DomainMatch(text))
                                  ELSE named(BasePrompt(conn.host))
    /\ UNCHANGED <<appvars, devices, max_workers, gatherers, net, caller>>

\* as ConnectFailed, but the task goes on to the facts phase and the checks
ConnectFailed_Continues(i) ==
    /\ task[i].pc = "unreachable"
    /\ results' = [results EXCEPT ![devices[i].device].status = FAIL]
    /\ task' = [task EXCEPT ![i].pc = "facts"]
    /\ UNCHANGED <<appvars, devices, max_workers, gatherers, net, futures, trace, caller>>

\* lines 163-166: no connection, the task ends with status 2
ConnectFailed(i) ==
    /\ task[i].pc = "unreachable"
    /\ results' = [results EXCEPT ![devices[i].device].status = FAIL]
    /\ task' = [task EXCEPT ![i].pc = "done"]
    /\ Ended(i, "finished")
    /\ UNCHANGED <<appvars, devices, max_workers, gatherers, net, trace, caller>>

\* as GatherAll, but the loop ends at the first gatherer that raises
RECURSIVE GatherAll_StopAtFault(_, _)
GatherAll_StopAtFault(ids, facts) ==
    IF ids = <<>> THEN facts
    ELSE LET g == GathererDefs(Head(ids))
         IN IF g.kind = "raise" THEN facts
            ELSE GatherAll_StopAtFault(Tail(ids),
                     IF g.kind = "dict" THEN Update(facts, g.out) ELSE facts)

\* as GatherAll, but a key that is already present keeps its value
RECURSIVE GatherAll_FirstWins(_, _)
GatherAll_FirstWins(ids, facts) ==
    IF ids = <<>> THEN facts
    ELSE LET g == GathererDefs(Head(ids))
         IN GatherAll_FirstWins(Tail(ids),
                IF g.kind = "dict" THEN Update(g.out, facts) ELSE facts)

\* gather_facts(conn): every gatherer in registry order, a fault skipped
RECURSIVE GatherAll(_, _)
GatherAll(ids, facts) ==
    IF ids = <<>> THEN facts
    ELSE LET g == GathererDefs(Head(ids))
         IN GatherAll(Tail(ids),
                      IF g.kind = "dict" THEN Update(facts, g.out) ELSE facts)

\* lines 168-169
GatherFacts(i) ==
    /\ task[i].pc = "facts"
    /\ results' = IF gatherers # <<>>
                  THEN [results EXCEPT ![devices[i].device].facts =
                            GatherAll(gatherers, EmptyMap)]
                  ELSE results
    /\ Log(i, [k \in 1..Len(gatherers) |-> GatherEv(task[i].conn, gatherers[k])])
    /\ task' = [task EXCEPT ![i].pc = "load", ![i].k = 1]
    /\ UNCHANGED <<appvars, devices, max_workers, gatherers, net, futures, caller>>

\* as LoadCheck, but a fault of get_check_instance leaves audit_task
LoadCheck_Escapes(i) ==
    /\ task[i].pc = "load"
    /\ task[i].k <= Len(devices[i].check_list)
    /\ LET file == devices[i].check_list[task[i].k]
           ok == CheckDefs(file).loads
       IN /\ task' = IF ok
                     THEN [task EXCEPT ![i].pc = "drive", ![i].inst = NewInstance(file),
                                       ![i].last = NoRequest, ![i].calls = 0]
                     ELSE [task EXCEPT ![i].pc = "raised", ![i].raisedAt = 173]
          /\ futures' = IF ok THEN futures ELSE [futures EXCEPT ![i] = "raised"]
          /\ Log(i, <<LoadEv(file, ok, task[i].k)>>)
    /\ UNCHANGED <<appvars, devices, max_workers, gatherers, net, results, caller>>

\* as LoadCheck, but the checks are taken from the end of the list
LoadCheck_Reversed(i) ==
    /\ task[i].pc = "load"
    /\ task[i].k <= Len(devices[i].check_list)
    /\ LET file == devices[i].check_list[Len(devices[i].check_list) - task[i].k + 1]
           ok == CheckDefs(file).loads
       IN /\ task' = IF ok
                     THEN [task EXCEPT ![i].pc = "drive", ![i].inst = NewInstance(file),
                                       ![i].last = NoRequest, ![i].calls = 0]
                     ELSE [task EXCEPT ![i].k = @ + 1]
          /\ Log(i, <<LoadEv(file, ok, task[i].k)>>)
    /\ UNCHANGED <<appvars, devices, max_workers, gatherers, net, results, futures, caller>>

\* as LoadCheck, but a check file that was loaded before in the task is not
\* loaded again: its instance is driven once more
LoadCheck_KeepsInstance(i) ==
    /\ task[i].pc = "load"
    /\ task[i].k <= Len(devices[i].check_list)
    /\ LET file == devices[i].check_list[task[i].k]
           ok == CheckDefs(file).loads
           inst == IF task[i].inst.file = file THEN task[i].inst
                   ELSE NewInstance(file)
       IN /\ task' = IF ok
                     THEN [task EXCEPT ![i].pc = "drive", ![i].inst = inst,
                                       ![i].last = NoRequest, ![i].calls = 0]
                     ELSE [task EXCEPT ![i].k = @ + 1]
          /\ Log(i, <<LoadEv(file, ok, task[i].k)>>)
    /\ UNCHANGED <<appvars, devices, max_workers, gatherers, net, results, futures, caller>>

\* get_check_instance(check_file, device) of lines 173-174; a fault goes to
\* the except clause of line 208 and the loop moves to the next check
LoadCheck(i) ==
    /\ task[i].pc = "load"
    /\ task[i].k <= Len(devices[i].check_list)
    /\ LET file == devices[i].check_list[task[i].k]
           ok == CheckDefs(file).loads
       IN /\ task' = IF ok
                     THEN [task EXCEPT ![i].pc = "drive", ![i].inst = NewInstance(file),
                                       ![i].last = NoRequest, ![i].calls = 0]
                     ELSE [task EXCEPT ![i].k = @ + 1]
          /\ Log(i, <<LoadEv(file, ok, task[i].k)>>)
    /\ UNCHANGED <<appvars, devices, max_workers, gatherers, net, results, futures, caller>>

\* the key of the raw cache for a request
RawKey(device, req_device, req_cmd) ==
    IF req_device # device THEN req_device \o ":" \o req_cmd ELSE req_cmd

\* "if raw.get(key):" -- the key is present and its text is true
CacheHit(raw, key) == key \in DOMAIN raw /\ Truthy(raw[key])

\* as Fetch, but the switch to another device opens the new connection
\* without closing the current one
Fetch_KeepsOld(device, session, conn, opens, raw, file, req_device, req_cmd, closeRaises, ok, sent) ==
    LET key == RawKey(device, req_device, req_cmd)
        out(fault, c, o, text, events) ==
            [fault |-> fault, conn |-> c, opens |-> o, output |-> text,
             events |-> events]
        opened == [host |-> req_device, n |-> opens + 1]
        connecting == ConnectEv(req_device, ok, opens + 1, session, file,
                                req_device, req_cmd)
    IN IF CacheHit(raw, key) THEN out(FALSE, conn, opens, raw[key], <<>>)
       ELSE IF req_device # device
       THEN IF conn = NoConn THEN out(TRUE, conn, opens, "", <<>>)
            ELSE IF ~ok THEN out(TRUE, NoConn, opens, "", <<connecting>>)
            ELSE out(sent = Raises, opened, opens + 1, sent,
                     <<connecting, SendEv(opened, req_cmd, sent, file, req_device)>>)
       ELSE IF conn = NoConn THEN out(TRUE, conn, opens, "", <<>>)
            ELSE out(sent = Raises, conn, opens, sent,
                     <<SendEv(conn, req_cmd, sent, file, req_device)>>)

\* lines 188-201: the output for a request, from the cache or from a device.
\* closeRaises, ok and sent are what disconnect, obt_conn and sendCommand do
\* if they are reached.
Fetch(device, session, conn, opens, raw, file, req_device, req_cmd, closeRaises, ok, sent) ==
    LET key == RawKey(device, req_device, req_cmd)
        out(fault, c, o, text, events) ==
            [fault |-> fault, conn |-> c, opens |-> o, output |-> text,
             events |-> events]
        opened == [host |-> req_device, n |-> opens + 1]
        closing == DisconnectEv(conn, closeRaises, file, req_device, req_cmd)
        connecting == ConnectEv(req_device, ok, opens + 1, session, file,
                                req_device, req_cmd)
    IN IF CacheHit(raw, key) THEN out(FALSE, conn, opens, raw[key], <<>>)
       ELSE IF req_device # device
       THEN \* conn.disconnect(); conn = obt_conn(...); conn.sendCommand(...)
            IF conn = NoConn THEN out(TRUE, conn, opens, "", <<>>)
            ELSE IF closeRaises THEN out(TRUE, conn, opens, "", <<closing>>)
            ELSE IF ~ok THEN out(TRUE, NoConn, opens, "", <<closing, connecting>>)
            ELSE out(sent = Raises, opened, opens + 1, sent,
                     <<closing, connecting,
                       SendEv(opened, req_cmd, sent, file, req_device)>>)
       ELSE \* conn.sendCommand(req_cmd) on whatever conn is now
            IF conn = NoConn THEN out(TRUE, conn, opens, "", <<>>)
            ELSE out(sent = Raises, conn, opens, sent,
                     <<SendEv(conn, req_cmd, sent, file, req_device)>>)

\* one iteration of the while loop of lines 176-204; the handler calls are
\* counted, and the history kept, for the first MaxCalls calls of a loop
DriveStep(i) ==
    /\ task[i].pc = "drive"
    /\ LET device == devices[i].device
           t == task[i]
           current == Request(t.inst, device)
       IN /\ current # NoRequest
          /\ current # t.last
          /\ \E closeRaises \in CloseOutcomes(t.conn.host),
                ok \in ConnectOutcomes(current[1]),
                sent \in SendOutcomes(AnsweringHost(device, t.conn, current[1]),
                                      current[2]) :
               LET st == CheckDefs(t.inst.file).steps[t.inst.pos]
                   got == Fetch(device, devices[i].session, t.conn, t.opens,
                                results[device].raw, t.inst.file, current[1],
                                current[2], closeRaises, ok, sent)
                   called == ~got.fault /\ st.defined
                   recorded == t.calls < MaxCalls
                   fault == got.fault \/ ~st.defined \/ st.raises
                   inst == IF called
                           THEN [t.inst EXCEPT
                                   !.RESULTS = Effect(st.effect, @, got.output),
                                   !.pos = IF st.raises THEN @ ELSE st.next]
                           ELSE t.inst
               IN /\ results' = IF got.fault THEN results
                                ELSE [results EXCEPT ![device].raw =
                                        Put(@, RawKey(device, current[1], current[2]),
                                            got.output)]
                  /\ task' = [task EXCEPT
                                ![i].conn = got.conn,
                                ![i].opens = got.opens,
                                ![i].inst = inst,
                                ![i].calls = IF called /\ recorded THEN @ + 1 ELSE @,
                                ![i].last = IF fault THEN @ ELSE current,
                                ![i].pc = IF fault THEN "load" ELSE "drive",
                                ![i].k = IF fault THEN @ + 1 ELSE @]
                  /\ Log(i, IF ~recorded THEN <<>>
                            ELSE got.events \o
                                 (IF called
                                  THEN <<HandlerEv(t.inst.file, t.inst.pos, current[1],
                                                   current[2], got.output)>>
                                  ELSE <<>>))
    /\ UNCHANGED <<appvars, devices, max_workers, gatherers, net, futures, caller>>

\* as StoreResult, but a repeated request ends the check as a fault: the
\* loop is left without line 206
StoreResult_RepeatIsFault(i) ==
    /\ task[i].pc = "drive"
    /\ LET device == devices[i].device
           current == Request(task[i].inst, device)
       IN /\ current = NoRequest \/ current = task[i].last
          /\ results' = IF current = NoRequest
                        THEN [results EXCEPT ![device].checks =
                                Put(@, task[i].inst.file, task[i].inst.RESULTS)]
                        ELSE results
    /\ task' = [task EXCEPT ![i].pc = "load", ![i].k = @ + 1]
    /\ UNCHANGED <<appvars, devices, max_workers, gatherers, net, futures, trace, caller>>

\* the loop ends (REQUESTS is false, or the request is the one just
\* consumed) and line 206 stores check_inst.RESULTS
StoreResult(i) ==
    /\ task[i].pc = "drive"
    /\ LET device == devices[i].device
           current == Request(task[i].inst, device)
       IN /\ current = NoRequest \/ current = task[i].last
          /\ results' = [results EXCEPT ![device].checks =
                              Put(@, task[i].inst.file, task[i].inst.RESULTS)]
    /\ task' = [task EXCEPT ![i].pc = "load", ![i].k = @ + 1]
    /\ UNCHANGED <<appvars, devices, max_workers, gatherers, net, futures, trace, caller>>

\* the keys of the checks mapping in the order the shell inserted them
RECURSIVE KeyOrder(_)
KeyOrder(check_list) ==
    IF check_list = <<>> THEN <<>>
    ELSE LET rest == KeyOrder(SubSeq(check_list, 1, Len(check_list) - 1))
             last == check_list[Len(check_list)]
         IN IF last \in Range(rest) THEN rest ELSE Append(rest, last)

\* as OverallStatus, but only status 2 counts
RECURSIVE OverallStatus_OnlyFail(_, _)
OverallStatus_OnlyFail(order, checks) ==
    IF order = <<>> THEN "pass"
    ELSE LET result == checks[Head(order)]
         IN IF ~IsMapping(result) THEN "raise"
            ELSE IF result.status = FAIL THEN "fail"
            ELSE OverallStatus_OnlyFail(Tail(order), checks)

\* lines 211-215: "pass", "fail" at the first status 2 or 5, or "raise" when
\* check_result.get is reached on a value without .get
RECURSIVE OverallStatus(_, _)
OverallStatus(order, checks) ==
    IF order = <<>> THEN "pass"
    ELSE LET result == checks[Head(order)]
         IN IF ~IsMapping(result) THEN "raise"
            ELSE IF result.status \in {FAIL, ERROR} THEN "fail"
            ELSE OverallStatus(Tail(order), checks)

\* as Finalize, but the loop runs over the checks of every device of the map
\* and no value is without .get
Finalize_EveryDevice(i) ==
    /\ task[i].pc = "load"
    /\ task[i].k > Len(devices[i].check_list)
    /\ LET device == devices[i].device
           fails == \E d \in DOMAIN results :
                       \E file \in DOMAIN results[d].checks :
                           results[d].checks[file].status \in {FAIL, ERROR}
       IN /\ results' = [results EXCEPT ![device].status =
                              IF fails THEN FAIL ELSE PASS]
          /\ task' = [task EXCEPT ![i].pc = "close"]
          /\ UNCHANGED futures
    /\ UNCHANGED <<appvars, devices, max_workers, gatherers, net, trace, caller>>

\* the for loop of line 171 is exhausted: lines 211-215 set the overall status
Finalize(i) ==
    /\ task[i].pc = "load"
    /\ task[i].k > Len(devices[i].check_list)
    /\ LET device == devices[i].device
           overall == OverallStatus(KeyOrder(devices[i].check_list),
                                    results[device].checks)
       IN /\ results' = [results EXCEPT ![device].status =
                              IF overall = "fail" THEN FAIL ELSE PASS]
          /\ IF overall = "raise"
             THEN /\ task' = [task EXCEPT ![i].pc = "raised", ![i].raisedAt = 213]
                  /\ Ended(i, "raised")
             ELSE /\ task' = [task EXCEPT ![i].pc = "close"]
                  /\ UNCHANGED futures
    /\ UNCHANGED <<appvars, devices, max_workers, gatherers, net, trace, caller>>

\* line 217: conn.disconnect(), outside every try
Close(i) ==
    /\ task[i].pc = "close"
    /\ LET conn == task[i].conn
       IN IF conn = NoConn
          THEN /\ task' = [task EXCEPT ![i].pc = "raised", ![i].raisedAt = 217]
               /\ Ended(i, "raised")
               /\ UNCHANGED trace
          ELSE \E closeRaises \in CloseOutcomes(conn.host) :
                 /\ Log(i, <<DisconnectEv(conn, closeRaises, None, None, None)>>)
                 /\ task' = [task EXCEPT
                               ![i].pc = IF closeRaises THEN "raised" ELSE "done",
                               ![i].raisedAt = IF closeRaises THEN 217 ELSE @]
                 /\ Ended(i, IF closeRaises THEN "raised" ELSE "finished")
    /\ UNCHANGED <<appvars, devices, max_workers, gatherers, net, results, caller>>

(***************************************************************************)
(* Specifications.                                                         *)
(***************************************************************************)
Next ==
    \/ StartThreadExecutor
    \/ WaitNext
    \/ WaitReturn
    \/ \E i \in Tasks : TaskStart(i)
    \/ \E i \in Tasks : AllocShell(i)
    \/ \E i \in Tasks : Connect(i)
    \/ \E i \in Tasks : ResolveHostname(i)
    \/ \E i \in Tasks : ConnectFailed(i)
    \/ \E i \in Tasks : GatherFacts(i)
    \/ \E i \in Tasks : LoadCheck(i)
    \/ \E i \in Tasks : DriveStep(i)
    \/ \E i \in Tasks : StoreResult(i)
    \/ \E i \in Tasks : Finalize(i)
    \/ \E i \in Tasks : Close(i)

Spec == Init /\ [][Next]_vars

SpecOne == InitOne /\ [][Next]_vars

SpecStable == InitStable /\ [][Next]_vars

SpecPool == InitPool /\ [][Next]_vars

\* a step of the task of roster entry i
TaskStep(i) ==
    /\ i \in Tasks
    /\ \/ TaskStart(i) \/ AllocShell(i) \/ Connect(i) \/ ResolveHostname(i)
       \/ ConnectFailed(i) \/ GatherFacts(i) \/ LoadCheck(i) \/ DriveStep(i)
       \/ StoreResult(i) \/ Finalize(i) \/ Close(i)

\* the caller runs on, a free worker takes the next queued entry, and a
\* running task that can take a step takes it
Fairness ==
    /\ WF_vars(StartThreadExecutor)
    /\ WF_vars(WaitNext)
    /\ WF_vars(WaitReturn)
    /\ \A i \in 1..MaxRoster : WF_vars(TaskStep(i))

SpecLive == InitLive /\ [][Next]_vars /\ Fairness

(***************************************************************************)
(* Vocabulary of the properties.                                           *)
(***************************************************************************)
\* the future of task i has completed
Over(i) == futures # <<>> /\ futures[i] \in {"finished", "raised"}

\* wait_for_completion has handed control back: it returned, or it raised
\* what future.result() re-raised
HandedBack == caller.pc \in {"returned", "raised"}

Events(i, op) == {k \in 1..Len(trace[i]) : trace[i][k].op = op}

\* the first obt_conn of task i gave no connection
InitialConnectFailed(i) ==
    /\ trace[i] # <<>>
    /\ trace[i][1].op = "connect"
    /\ trace[i][1].text = Raises

\* lines 211-215 have run to their end in task i
StatusComputed(i) ==
    \/ task[i].pc \in {"close", "done"}
    \/ task[i].pc = "raised" /\ task[i].raisedAt = 217

\* the distinct (device, command, handler) requests a check posts
DistinctRequests(file) ==
    Cardinality({<<st.target, st.command, st.handler>> :
                    st \in Range(CheckDefs(file).steps)})

\* the positions a check visits when every handler returns: <<k, c>> with k
\* the number of positions before the cycle and c the length of the cycle
\* (0 when the check clears REQUESTS)
RECURSIVE Orbit(_, _, _)
Orbit(file, pos, path) ==
    IF pos = 0 THEN <<Len(path), 0>>
    ELSE IF \E k \in 1..Len(path) : path[k] = pos
    THEN LET k == CHOOSE j \in 1..Len(path) : path[j] = pos
         IN <<k - 1, Len(path) - k + 1>>
    ELSE Orbit(file, CheckDefs(file).steps[pos].next, Append(path, pos))

(***************************************************************************)
(* C1.  After start_thread_executor and wait_for_completion, self.results  *)
(* has an entry for every device id of the roster, whatever faults         *)
(* occurred inside the tasks.                                              *)
(***************************************************************************)
C1_EveryDeviceHasEntry ==
    HandedBack => \A i \in Tasks : devices[i].device \in DOMAIN results

(***************************************************************************)
(* C2.  A fault inside one device's task never keeps another device's      *)
(* finalized result out of the map the caller has when                     *)
(* wait_for_completion hands control back: every task other than a faulted *)
(* one has by then recorded its overall status.                            *)
(***************************************************************************)
C2_OthersFinalizedAtHandBack ==
    HandedBack =>
        \A i, j \in Tasks :
            (i # j /\ futures[i] = "raised" /\ futures[j] # "raised") =>
                /\ futures[j] = "finished"
                /\ devices[j].device \in DOMAIN results
                /\ results[devices[j].device].status \in {PASS, FAIL}

(***************************************************************************)
(* C3.  wait_for_completion hands control back only when every submitted   *)
(* task has ended, and it then returns normally, also when tasks ended     *)
(* through an internal failure.                                            *)
(***************************************************************************)
C3_WaitsForAllThenReturns ==
    HandedBack => /\ \A i \in Tasks : Over(i)
                  /\ caller.pc = "returned"

(***************************************************************************)
(* C4.  If the initial connection to device D fails, the task ends with    *)
(* login false, every check of the check_list at NOT_RUN with empty        *)
(* observation and comments, and overall status FAIL.                      *)
(***************************************************************************)
C4_UnreachableIsFail ==
    \A i \in Tasks :
        (Over(i) /\ InitialConnectFailed(i)) =>
            LET r == results[devices[i].device]
            IN /\ r.login = "False"
               /\ \A file \in Range(devices[i].check_list) :
                    /\ file \in DOMAIN r.checks
                    /\ r.checks[file] = FreshResult
               /\ r.status = FAIL

(***************************************************************************)
(* C5.  The drive loop of every check ends after at most N+1 handler       *)
(* invocations, N the number of distinct requests the check posts.         *)
(***************************************************************************)
C5_AtMostNPlusOneCalls ==
    \A i \in Tasks :
        task[i].inst.file # None =>
            task[i].calls <= DistinctRequests(task[i].inst.file) + 1

(***************************************************************************)
(* C6.  A check that after k distinct requests alternates between two      *)
(* distinct requests has its drive loop ended within 2k+1 handler          *)
(* invocations.                                                            *)
(***************************************************************************)
C6_AlternationEndsIn2kPlus1 ==
    \A i \in Tasks :
        LET file == task[i].inst.file
            orbit == Orbit(file, CheckDefs(file).first, <<>>)
        IN (file # None /\ orbit[2] = 2) => task[i].calls <= 2 * orbit[1] + 1

(***************************************************************************)
(* C7.  Within one device audit every command requested against the       *)
(* audited device is sent at most once, and every handler invoked for it   *)
(* is handed the same captured text, whatever text the device returns.     *)
(***************************************************************************)
C7_OwnCommandSentOnce ==
    \A i \in Tasks :
        LET device == devices[i].device
            t == trace[i]
        IN /\ \A a, b \in Events(i, "send") :
                (/\ t[a].target = device /\ t[b].target = device
                 /\ t[a].cmd = t[b].cmd
                 /\ t[a].text # Raises /\ t[b].text # Raises) => a = b
           /\ \A a, b \in Events(i, "handler") :
                (/\ t[a].target = device /\ t[b].target = device
                 /\ t[a].cmd = t[b].cmd) => t[a].text = t[b].text

(***************************************************************************)
(* C8.  The first request for (T, c), T another device, opens one          *)
(* connection to T and sends c once; every later request for (T, c) in the *)
(* audit is served from the cache: no connection is opened and nothing is  *)
(* sent for it, whatever text T returns.                                   *)
(***************************************************************************)
C8_CrossRequestSentOnce ==
    \A i \in Tasks :
        LET device == devices[i].device
            t == trace[i]
        IN \A a \in Events(i, "send") :
             (t[a].target # None /\ t[a].target # device /\ t[a].text # Raises) =>
                 \A b \in (a + 1)..Len(t) :
                     (t[b].target = t[a].target /\ t[b].cmd = t[a].cmd) =>
                         t[b].op = "handler"

(***************************************************************************)
(* C9.  For a device whose initial connect succeeded and whose task has    *)
(* computed the overall status, the status is FAIL exactly when an entry   *)
(* of results[D].checks has status FAIL or ERROR, and PASS otherwise.      *)
(***************************************************************************)
C9_OverallStatus ==
    \A i \in Tasks :
        (StatusComputed(i) /\ ~InitialConnectFailed(i)) =>
            LET r == results[devices[i].device]
                bad == \E file \in DOMAIN r.checks :
                          r.checks[file].status = FAIL \/ r.checks[file].status = ERROR
            IN r.status = IF bad THEN FAIL ELSE PASS

\* a device audit ended with overall FAIL that only an ERROR check explains
C9_Witness ==
    \E i \in Tasks :
        /\ task[i].pc = "done"
        /\ ~InitialConnectFailed(i)
        /\ results[devices[i].device].status = FAIL
        /\ \E file \in DOMAIN results[devices[i].device].checks :
              results[devices[i].device].checks[file].status = ERROR
        /\ \A file \in DOMAIN results[devices[i].device].checks :
              results[devices[i].device].checks[file].status # FAIL

(***************************************************************************)
(* audit_task run alone against endpoints that answer the same way each    *)
(* time: the record (login, checks, status) it leaves, computed step by    *)
(* step with the operators the actions use.                                *)
(***************************************************************************)
\* the drive loop of one check, from position pos: what it leaves of the
\* connection and the raw cache, and the RESULTS it stores (stored FALSE
\* when a fault ended the loop, or when it is still running after fuel
\* handler invocations)
RECURSIVE AloneDrive(_, _, _, _, _, _, _, _)
AloneDrive(entry, inst, last, conn, opens, raw, fuel, plan) ==
    LET device == entry.device
        current == Request(inst, device)
        left(c, o, r, stored) ==
            [conn |-> c, opens |-> o, raw |-> r, stored |-> stored,
             RESULTS |-> inst.RESULTS]
    IN IF current = NoRequest \/ current = last THEN left(conn, opens, raw, TRUE)
       ELSE IF fuel = 0 THEN left(conn, opens, raw, FALSE)
       ELSE LET st == CheckDefs(inst.file).steps[inst.pos]
                got == Fetch(device, entry.session, conn, opens, raw, inst.file,
                             current[1], current[2], plan.closeFault,
                             current[1] \notin plan.down /\
                                 current[1] \notin DottedQuads \ IPv4Addresses,
                             IF conn = NoConn THEN Raises
                             ELSE plan.answer[AnsweringHost(device, conn, current[1])])
                cached == IF got.fault THEN raw
                          ELSE Put(raw, RawKey(device, current[1], current[2]), got.output)
            IN IF got.fault \/ ~st.defined \/ st.raises
               THEN left(got.conn, got.opens, cached, FALSE)
               ELSE AloneDrive(entry,
                               [inst EXCEPT !.RESULTS = Effect(st.effect, @, got.output),
                                            !.pos = st.next],
                               current, got.conn, got.opens, cached, fuel - 1, plan)

\* the for loop of lines 171-209 from check k on
RECURSIVE AloneChecks(_, _, _, _, _, _, _)
AloneChecks(entry, k, conn, opens, raw, checks, plan) ==
    IF k > Len(entry.check_list) THEN checks
    ELSE LET file == entry.check_list[k]
         IN IF ~CheckDefs(file).loads
            THEN AloneChecks(entry, k + 1, conn, opens, raw, checks, plan)
            ELSE LET d == AloneDrive(entry, NewInstance(file), NoRequest, conn, opens,
                                     raw, MaxCalls, plan)
                 IN AloneChecks(entry, k + 1, d.conn, d.opens, d.raw,
                                IF d.stored THEN Put(checks, file, d.RESULTS) ELSE checks,
                                plan)

AloneRecord(entry, plan) ==
    LET device == entry.device
        numeric == device \in DottedQuads
        address == device \in IPv4Addresses
        ok == device \notin plan.down /\ ~(numeric /\ ~address)
        shell == Shell(device, entry.check_list).checks
        resolves == \/ ~numeric
                    \/ address /\ (plan.rdns \/ ~ok \/ plan.answer[device] # Raises)
        rec(checks, status) ==
            [login |-> IF ok THEN "True" ELSE "False", checks |-> checks,
             status |-> status]
    IN IF ~resolves THEN rec(shell, NoStatus)
       ELSE IF ~ok THEN rec(shell, FAIL)
       ELSE LET checks == AloneChecks(entry, 1, [host |-> device, n |-> 1], 1,
                                      EmptyMap, shell, plan)
                overall == OverallStatus(KeyOrder(entry.check_list), checks)
            IN rec(checks, IF overall = "fail" THEN FAIL ELSE PASS)

(***************************************************************************)
(* C10.  With endpoints and checks that answer the same way each time,     *)
(* the record (login, check results, overall status) every device is left  *)
(* with when all tasks have ended is the one its task leaves when it runs  *)
(* alone: it is the same in every interleaving and completion order, and   *)
(* no device's status depends on another device's results.                 *)
(***************************************************************************)
C10_RecordIndependentOfInterleaving ==
    (\A i \in Tasks : Over(i)) =>
        \A i \in Tasks :
            LET r == results[devices[i].device]
            IN [login |-> r.login, checks |-> r.checks, status |-> r.status]
                   = AloneRecord(devices[i], net)

\* two devices ended, one with overall PASS and one with overall FAIL, the
\* FAIL one having ended first
C10_Witness ==
    /\ Len(devices) = 2
    /\ devices[1].device # devices[2].device
    /\ \A i \in Tasks : futures # <<>> /\ futures[i] = "finished"
    /\ results[devices[1].device].status = PASS
    /\ results[devices[2].device].status = FAIL
    /\ caller.seen = {2}

(***************************************************************************)
(* C11.  When the drive loop of a check has been aborted by a run-time     *)
(* fault (a handler raised, the named handler does not exist, a send or a  *)
(* connection raised) after an earlier handler of the same check set the   *)
(* instance's RESULTS, results[D].checks[check] is that last-set RESULTS.   *)
(* Stated for every check whose drive loop is over: the recorded result is *)
(* the RESULTS of the instance that was driven.                            *)
(***************************************************************************)
C11_PartialResultKept ==
    \A i \in Tasks :
        LET t == task[i]
            device == devices[i].device
        IN (/\ t.pc \in {"load", "close", "done"}
            /\ t.inst.file # None
            /\ IsMapping(t.inst.RESULTS)
            /\ t.inst.RESULTS # FreshResult) =>
               results[device].checks[t.inst.file] = t.inst.RESULTS

(***************************************************************************)
(* C12.  A check that fails to load does not end audit_task: its entry in  *)
(* results[D].checks keeps the NOT_RUN result of the shell, the fault does *)
(* not leave the task, and every later check of the list is still loaded,  *)
(* in its turn.                                                            *)
(***************************************************************************)
\* the check at position p of the list of task i has been reached: it is
\* being driven, or the loop is past it
Reached(i, p) ==
    \/ task[i].k > p
    \/ task[i].k = p /\ task[i].pc = "drive"

C12_LoadFailureSkipsOnlyThatCheck ==
    \A i \in Tasks :
        LET t == trace[i]
            list == devices[i].check_list
        IN \A a \in Events(i, "load") :
             t[a].text = Raises =>
                /\ results[devices[i].device].checks[t[a].file] = FreshResult
                /\ task[i].raisedAt # 173
                /\ \A p \in (t[a].pos + 1)..Len(list) :
                     /\ Over(i) => Reached(i, p)
                     /\ Reached(i, p) =>
                          \E b \in Events(i, "load") :
                              b > a /\ t[b].pos = p /\ t[b].file = list[p]

\* a check failed to load, and the check after it was loaded, driven to its
\* end and its result recorded
C12_Witness ==
    \E i \in Tasks :
        /\ task[i].pc = "done"
        /\ Len(devices[i].check_list) = 2
        /\ devices[i].check_list[1] = "broken.py"
        /\ \E a \in Events(i, "load") : trace[i][a].text = Raises
        /\ results[devices[i].device].checks[devices[i].check_list[2]].status
               \in {PASS, FAIL}

(***************************************************************************)
(* C13.  Once gather_facts has run for a device, every loaded gatherer has *)
(* been invoked, a gatherer that raised has contributed no key, facts      *)
(* holds for every key the value of the last gatherer that returned a      *)
(* mapping with that key, and the task has gone on to its checks.          *)
(***************************************************************************)
\* the gatherers, by position in the registry, that return a mapping
Contributors == {g \in 1..Len(gatherers) : GathererDefs(gatherers[g]).kind = "dict"}

C13_GathererFaultIsolated ==
    \A i \in Tasks :
        Events(i, "gather") # {} =>
            LET facts == results[devices[i].device].facts
                has(key) == {g \in Contributors : key \in DOMAIN GathererDefs(gatherers[g]).out}
                last(key) == CHOOSE g \in has(key) : \A h \in has(key) : h <= g
            IN /\ \A g \in 1..Len(gatherers) :
                    \E a \in Events(i, "gather") : trace[i][a].cmd = gatherers[g]
               /\ DOMAIN facts = {key \in {"model", "version", "uptime", "serial"} :
                                    has(key) # {}}
               /\ \A key \in DOMAIN facts :
                    facts[key] = GathererDefs(gatherers[last(key)]).out[key]
               /\ "uptime" \notin DOMAIN facts
               /\ task[i].pc \in {"load", "drive", "close", "done", "raised"}
               /\ task[i].raisedAt \notin {169, 256}

\* a device audit ran to its end with a raising gatherer in the registry
\* and the output of the gatherer after it merged
C13_Witness ==
    \E i \in Tasks :
        /\ task[i].pc = "done"
        /\ \E g \in 1..Len(gatherers) : GathererDefs(gatherers[g]).kind = "raise"
        /\ Events(i, "gather") # {}
        /\ "version" \in DOMAIN results[devices[i].device].facts
        /\ results[devices[i].device].facts["version"] = "15.2"
        /\ \E a \in Events(i, "load") : trace[i][a].text = "ok"

(***************************************************************************)
(* C14.  When a task has ended, every connection it opened has had         *)
(* disconnect() called on it.                                              *)
(***************************************************************************)
C14_EveryConnectionClosed ==
    \A i \in Tasks :
        Over(i) =>
            \A a \in Events(i, "connect") :
                trace[i][a].text = "ok" =>
                    \E b \in Events(i, "disconnect") :
                        /\ b > a
                        /\ trace[i][b].host = trace[i][a].host
                        /\ trace[i][b].n = trace[i][a].n

(***************************************************************************)
(* C15.  A fault raised by disconnect(), at the final close of the task or *)
(* at a cross-device switch, never leaves audit_task: the future of a task *)
(* in which a close raised completes without an exception.                 *)
(***************************************************************************)
C15_CloseFaultContained ==
    \A i \in Tasks :
        (/\ Over(i)
         /\ \E b \in Events(i, "disconnect") : trace[i][b].text = Raises
         /\ task[i].raisedAt \notin {161, 213}) =>
            futures[i] = "finished"

(***************************************************************************)
(* C16.  Every connection obt_conn attempts is given a proxy exactly when  *)
(* the jumphost address, the jumphost username and the jumphost password   *)
(* of the session are all present; otherwise it is attempted directly.     *)
(***************************************************************************)
C16_ProxyOnlyWithAllThree ==
    \A i \in Tasks :
        LET session == devices[i].session
            complete == /\ session.jumphost_ip # None
                        /\ session.jumphost_username # None
                        /\ session.jumphost_password # None
        IN \A a \in Events(i, "connect") :
              (trace[i][a].proxy # None) <=> complete

(***************************************************************************)
(* C17.  Each entry of the results map is written by exactly one task: no  *)
(* two tasks have both written results[device] for the same device id,     *)
(* whatever roster was submitted.                                          *)
(***************************************************************************)
\* task i has stored into results[devices[i].device] (line 149 has run)
HasWritten(i) == task[i].pc \notin {"idle", "shell"}

C17_OneWriterPerKey ==
    \A i, j \in Tasks :
        (i # j /\ HasWritten(i) /\ HasWritten(j)) =>
            devices[i].device # devices[j].device

(***************************************************************************)
(* C18.  start_thread_executor submits exactly one audit_task per roster   *)
(* entry, every task runs its body at most once, and at every moment at    *)
(* most max_workers tasks are executing; a task that has not started is    *)
(* queued.                                                                 *)
(***************************************************************************)
C18_PoolBound ==
    futures # <<>> =>
        /\ Len(futures) = Len(devices)
        /\ Cardinality(Running) <= max_workers
        /\ \A i \in Tasks :
             /\ futures[i] = "pending" <=> task[i].pc = "idle"
             /\ Cardinality({a \in Events(i, "connect") : trace[i][a].file = None}) <= 1

\* a pool of one worker: one task is executing and the next entry is queued
C18_Witness ==
    /\ max_workers = 1
    /\ Len(devices) = 2
    /\ futures # <<>>
    /\ futures[1] = "running"
    /\ task[1].pc = "resolve"
    /\ futures[2] = "pending"

(***************************************************************************)
(* C19.  If fewer than max_workers tasks block for ever in network I/O,    *)
(* every other submitted task is eventually started and eventually         *)
(* reaches its end.                                                        *)
(***************************************************************************)
\* the tasks whose connect never returns
Hung == {i \in Tasks : devices[i].device \in net.hang}

C19_OthersEventuallyEnd ==
    (Cardinality(Hung) < max_workers) ~> (\A i \in Tasks \ Hung : Over(i))

(***************************************************************************)
(* C20.  The checks of one device are loaded in list order, one load per   *)
(* position; everything done for a check (connections, sends, handler      *)
(* calls) happens after its own load and before the load of the next       *)
(* check, so check k+1 is not loaded before the drive loop of check k has  *)
(* ended; while a check is driven it is the check at the position the      *)
(* loop has reached.                                                       *)
(***************************************************************************)
C20_ChecksInListOrder ==
    \A i \in Tasks :
        LET t == trace[i]
            list == devices[i].check_list
            loads == Events(i, "load")
            before(a) == {b \in loads : b <= a}
        IN /\ \A a \in loads :
                /\ t[a].pos = Cardinality(before(a))
                /\ t[a].pos <= Len(list)
                /\ t[a].file = list[t[a].pos]
           /\ \A x \in 1..Len(t) :
                (t[x].op # "load" /\ t[x].file # None) =>
                    /\ before(x) # {}
                    /\ LET a == CHOOSE b \in before(x) : \A c \in before(x) : c <= b
                       IN t[a].file = t[x].file /\ t[a].text = "ok"
           /\ task[i].pc = "drive" =>
                /\ Cardinality(loads) = task[i].k
                /\ task[i].inst.file = list[task[i].k]

\* a device audit ended after two different checks were loaded and driven
C20_Witness ==
    \E i \in Tasks :
        /\ task[i].pc = "done"
        /\ Len(devices[i].check_list) = 2
        /\ devices[i].check_list[1] # devices[i].check_list[2]
        /\ \A p \in 1..2 :
             \E a \in Events(i, "load"), h \in Events(i, "handler") :
                /\ a < h
                /\ trace[i][a].pos = p
                /\ trace[i][a].text = "ok"
                /\ trace[i][h].file = devices[i].check_list[p]

(***************************************************************************)
(* C21.  When a check is driven a second time in one audit and every       *)
(* (device, command) pair it requests was captured before that second run  *)
(* began, the second run sends no command and opens or closes no           *)
(* connection.                                                             *)
(***************************************************************************)
\* the load event under which event x of task i happened
LoadOf(i, x) ==
    LET earlier == {b \in Events(i, "load") : b < x}
    IN IF earlier = {} THEN 0
       ELSE CHOOSE b \in earlier : \A c \in earlier : c <= b

\* a text for (target, cmd) was captured in task i before event b
CapturedBefore(i, b, target, cmd) ==
    \E s \in Events(i, "send") :
        /\ s < b
        /\ trace[i][s].text # Raises
        /\ trace[i][s].target = target
        /\ trace[i][s].cmd = cmd

C21_SecondRunFromCache ==
    \A i \in Tasks :
        LET t == trace[i]
            device == devices[i].device
        IN \A a, b \in Events(i, "load") :
             (/\ a < b
              /\ t[a].file = t[b].file
              /\ t[b].text = "ok"
              /\ \A st \in Range(CheckDefs(t[b].file).steps) :
                    CapturedBefore(i, b, IF st.target = "self" THEN device ELSE st.target,
                                   st.command)) =>
                 \A x \in (b + 1)..Len(t) :
                     LoadOf(i, x) = b => t[x].op \notin {"send", "connect", "disconnect"}

(***************************************************************************)
(* C22.  _get_device_fqdn never raises into the task, and the hostname it  *)
(* records is: the device id when the id is no dotted IPv4 literal; for a  *)
(* literal, the reverse-DNS name, or after a failed reverse lookup         *)
(* "<base_prompt>.<domain>" or base_prompt from the running configuration  *)
(* of a live connection, or the id itself when there is no connection.     *)
(***************************************************************************)
\* line 161 has returned in task i
Resolved(i) ==
    /\ task[i].pc \notin {"idle", "shell", "connect", "resolve"}
    /\ task[i].raisedAt # 161

C22_HostnameResolution ==
    \A i \in Tasks :
        LET device == devices[i].device
            hostname == results[device].hostname
            asked == {s \in Events(i, "send") :
                        trace[i][s].cmd = "show running-config | include domain"}
        IN /\ task[i].raisedAt # 161
           /\ Resolved(i) =>
                IF device \notin DottedQuads THEN hostname = device
                ELSE IF asked # {}
                THEN \A s \in asked :
                        hostname = IF DomainMatch(trace[i][s].text) # None
                                   THEN BasePrompt(device) \o "." \o DomainMatch(trace[i][s].text)
                                   ELSE BasePrompt(device)
                ELSE IF InitialConnectFailed(i)
                THEN hostname \in {ReverseName(device), device}
                ELSE hostname = ReverseName(device)

(***************************************************************************)
(* C23.  A check whose handler leaves the pending request identical to the *)
(* request just consumed has that handler invoked exactly once for the     *)
(* request; the loop then stops without a fault and the RESULTS of the     *)
(* instance is recorded for the check.                                     *)
(***************************************************************************)
\* the handler of the first request of the check leaves that request pending
RepeatsFirst(file) ==
    /\ file # None
    /\ CheckDefs(file).loads
    /\ LET st == CheckDefs(file).steps[CheckDefs(file).first]
       IN st.defined /\ ~st.raises /\ st.next = CheckDefs(file).first

C23_RepeatGuardStopsAfterOne ==
    \A i \in Tasks :
        LET t == task[i]
            file == t.inst.file
            calls == {h \in Events(i, "handler") : trace[i][h].file = file}
        IN (RepeatsFirst(file) /\ Cardinality(Events(i, "load")) = 1) =>
              /\ Cardinality(calls) <= 1
              /\ t.calls = Cardinality(calls)
              /\ (t.pc # "drive" /\ calls # {}) =>
                    /\ results[devices[i].device].checks[file] = t.inst.RESULTS
                    /\ t.inst.RESULTS # FreshResult
                    /\ t.pc \in {"load", "close", "done"} \/ t.raisedAt = 217

\* the audit of a device ended after the repeat-guard stopped its check,
\* whose one handler call is recorded
C23_Witness ==
    \E i \in Tasks :
        /\ task[i].pc = "done"
        /\ RepeatsFirst(task[i].inst.file)
        /\ Cardinality(Events(i, "handler")) = 1
        /\ results[devices[i].device].checks[task[i].inst.file].status = INCONCLUSIVE

(***************************************************************************)
(* C24.  Within one task the phases occur in the order INIT, CONNECTING,   *)
(* FACTS, RUNNING_CHECKS, FINALIZED: the result shell exists before the    *)
(* connect attempt, login and hostname are recorded before any gatherer    *)
(* runs, all gatherers have finished before the first check is loaded, the *)
(* overall status is computed after the last drive loop, and FACTS is      *)
(* entered if and only if the connect succeeded and a gatherer is loaded.  *)
(***************************************************************************)
\* the gatherers have been called in the task of entry i
FactsEntered(i) == Events(i, "gather") # {}

\* the order of the phases in the history of one task
PhasesInOrder(i) ==
    LET device == devices[i].device
        gather == Events(i, "gather")
        checks == Events(i, "load") \cup Events(i, "handler")
    IN /\ trace[i] # <<>> =>
            /\ device \in DOMAIN results
            /\ trace[i][1].op = "connect" /\ trace[i][1].target = None
       /\ gather # {} =>
            /\ results[device].login = "True"
            /\ Resolved(i)
            /\ Cardinality(gather) = Len(gatherers)
       /\ \A g \in gather, c \in checks : g < c
       /\ task[i].pc \in {"load", "drive"} =>
            /\ results[device].status = NoStatus
            /\ FactsEntered(i) <=> gatherers # <<>>
       /\ StatusComputed(i) =>
            \/ InitialConnectFailed(i)
            \/ task[i].k > Len(devices[i].check_list)

C24_PhaseOrder ==
    \A i \in Tasks :
        /\ PhasesInOrder(i)
        /\ Over(i) =>
              (FactsEntered(i) <=>
                  (~InitialConnectFailed(i) /\ gatherers # <<>>))

(***************************************************************************)
(* C25.  On failure of the initial connect the task makes exactly one      *)
(* connect attempt and afterwards calls no gatherer, loads no check, sends *)
(* no command and opens no further connection: raw and facts of the result *)
(* shell stay the empty mappings.                                          *)
(***************************************************************************)
C25_NothingAfterFailedConnect ==
    \A i \in Tasks :
        InitialConnectFailed(i) =>
            /\ Len(trace[i]) = 1
            /\ task[i].opens = 0
            /\ task[i].inst = NoInstance
            /\ results[devices[i].device].raw = EmptyMap
            /\ results[devices[i].device].facts = EmptyMap

\* a task whose initial connect failed ended, with gatherers loaded and a
\* check requested
C25_Witness ==
    \E i \in Tasks :
        /\ InitialConnectFailed(i)
        /\ Over(i)
        /\ gatherers # <<>>
        /\ devices[i].check_list # <<>>
        /\ results[devices[i].device].status = FAIL

(***************************************************************************)
(* C26.  From the allocation of the result shell until the task ends, the  *)
(* key set of results[D].checks equals the set of check ids of D's         *)
(* check_list: no key is added or removed, and a check that has not yet    *)
(* been driven holds status NOT_RUN.                                       *)
(***************************************************************************)
\* the check file has not been driven to its end in the task of entry i
NotYetDriven(i, file) ==
    \A p \in 1..Len(devices[i].check_list) :
        devices[i].check_list[p] = file => p >= task[i].k

C26_ChecksKeysFixed ==
    \A i \in Tasks :
        LET device == devices[i].device
        IN task[i].pc \notin {"idle", "shell"} =>
              /\ device \in DOMAIN results
              /\ DOMAIN results[device].checks = Range(devices[i].check_list)
              /\ \A file \in Range(devices[i].check_list) :
                    NotYetDriven(i, file) =>
                        /\ results[device].checks[file] = FreshResult
                        /\ FreshResult.status = NOT_RUN

\* the second of two different checks is being driven: the first holds its
\* result, the second still the shell's
C26_Witness ==
    \E i \in Tasks :
        LET list == devices[i].check_list
            checks == results[devices[i].device].checks
        IN /\ task[i].pc = "drive" /\ task[i].k = 2 /\ task[i].calls > 0
           /\ list[1] # list[2]
           /\ checks[list[1]] # FreshResult
           /\ checks[list[2]] = FreshResult
           /\ DOMAIN checks = {list[1], list[2]}

(***************************************************************************)
(* C27.  Every iteration over check_list constructs a new check instance   *)
(* from freshly loaded source and no instance is driven by more than one   *)
(* drive loop: the pending request and the result at the start of each     *)
(* drive loop are the constructor's values, whatever an earlier (device,   *)
(* check) pair wrote.                                                      *)
(***************************************************************************)
\* the task of entry i stands at the start of a drive loop: get_check_instance
\* has just returned
LoopStart(i) ==
    /\ trace[i] # <<>>
    /\ trace[i][Len(trace[i])].op = "load"
    /\ trace[i][Len(trace[i])].text = "ok"
    /\ trace[i][Len(trace[i])].pos = task[i].k

C27_FreshInstancePerLoop ==
    \A i \in Tasks :
        LoopStart(i) =>
            LET file == devices[i].check_list[task[i].k]
            IN /\ task[i].pc = "drive"
               /\ task[i].inst = NewInstance(file)
               /\ task[i].inst.pos = CheckDefs(file).first
               /\ task[i].inst.RESULTS = FreshResult
               /\ task[i].last = NoRequest

\* the second drive loop of the same check file starts after the first one
\* has moved its instance on and stored its result
C27_Witness ==
    \E i \in Tasks :
        /\ LoopStart(i)
        /\ task[i].k = 2
        /\ devices[i].check_list[1] = devices[i].check_list[2]
        /\ Events(i, "handler") # {}
        /\ results[devices[i].device].checks[devices[i].check_list[1]] # FreshResult

(***************************************************************************)
(* C28.  gather_facts returns the union of the mapping outputs of all      *)
(* non-failing gatherers; for a key produced by several gatherers the      *)
(* value of the gatherer invoked last in registry order is kept; an output *)
(* that is not a mapping contributes nothing.                              *)
(***************************************************************************)
C28_LastWriteWinsUnion ==
    \A i \in Tasks :
        Events(i, "gather") # {} =>
            LET facts == results[devices[i].device].facts
                mappings == {g \in 1..Len(gatherers) :
                               GathererDefs(gatherers[g]).kind = "dict"}
                out(g) == GathererDefs(gatherers[g]).out
            IN /\ DOMAIN facts = UNION {DOMAIN out(g) : g \in mappings}
               /\ \A key \in DOMAIN facts :
                    \E g \in mappings :
                        /\ key \in DOMAIN out(g)
                        /\ facts[key] = out(g)[key]
                        /\ \A h \in mappings : key \in DOMAIN out(h) => h <= g
               /\ facts = GatherAll(gatherers, EmptyMap)

\* gather_facts has merged a registry in which the key "version" is produced
\* twice, the later producer being hw.model, next to a non-mapping output
C28_Witness ==
    \E i \in Tasks :
        /\ Events(i, "gather") # {}
        /\ \E a, b, c \in 1..Len(gatherers) :
              /\ a < b
              /\ gatherers[a] = "os.version" /\ gatherers[b] = "hw.model"
              /\ gatherers[c] = "os.none"
        /\ results[devices[i].device].facts["version"] = "17.3"
        /\ "serial" \notin DOMAIN results[devices[i].device].facts

(***************************************************************************)
(* C29.  If opening the connection for a cross-device request fails, only  *)
(* the requesting check's drive loop is aborted: the remaining checks of   *)
(* the device are still driven and can still send commands to the audited  *)
(* device, the overall status is computed, and the task ends without       *)
(* raising.                                                                *)
(***************************************************************************)
\* the connect attempts of the task of entry i for a cross-device request
\* that failed
CrossConnectFailed(i) ==
    {e \in Events(i, "connect") :
        trace[i][e].target # None /\ trace[i][e].text = Raises}

C29_CrossConnectFaultContained ==
    \A i \in Tasks :
        CrossConnectFailed(i) # {} =>
            /\ task[i].pc \in {"load", "drive", "close"} => task[i].conn # NoConn
            /\ Over(i) =>
                  /\ futures[i] = "finished"
                  /\ results[devices[i].device].status # NoStatus

(***************************************************************************)
(* C30.  Every command is sent over a connection that was opened to the    *)
(* device named in its request: a request targeting the audited device is  *)
(* never sent over a connection opened to another device, so the text kept *)
(* in raw under a plain command key was produced by the audited device,    *)
(* also after an earlier cross-device request in the same audit.           *)
(***************************************************************************)
C30_SentToRequestedDevice ==
    \A i \in Tasks :
        \A s \in Events(i, "send") :
            trace[i][s].target # None =>
                /\ trace[i][s].host = trace[i][s].target
                /\ \E c \in Events(i, "connect") :
                      /\ c < s
                      /\ trace[i][c].text = "ok"
                      /\ trace[i][c].n = trace[i][s].n
                      /\ trace[i][c].host = trace[i][s].target

(***************************************************************************)
(* C31.  At every moment a task holds at most one open connection: at a    *)
(* cross-device switch the current connection is closed before the new one *)
(* is opened, and every connection is used only by the task that opened    *)
(* it.                                                                     *)
(***************************************************************************)
\* the connections the task of entry i has opened and not closed before
\* position p of its history, by number
OpenBefore(i, p) ==
    {trace[i][c].n : c \in {c \in Events(i, "connect") :
        /\ c < p
        /\ trace[i][c].text = "ok"
        /\ ~\E d \in Events(i, "disconnect") :
              /\ c < d /\ d < p
              /\ trace[i][d].n = trace[i][c].n
              /\ trace[i][d].text = "ok"}}

C31_OneOpenConnection ==
    \A i \in Tasks :
        /\ \A p \in 1..(Len(trace[i]) + 1) : Cardinality(OpenBefore(i, p)) <= 1
        /\ \A c \in Events(i, "connect") : OpenBefore(i, c) = {}
        /\ \A e \in Events(i, "send") \cup Events(i, "gather") \cup Events(i, "disconnect") :
              /\ trace[i][e].n \in OpenBefore(i, e)
              /\ \E c \in Events(i, "connect") :
                    /\ c < e
                    /\ trace[i][c].n = trace[i][e].n
                    /\ trace[i][c].host = trace[i][e].host
        /\ task[i].conn # NoConn =>
              OpenBefore(i, Len(trace[i]) + 1) \subseteq {task[i].conn.n}

\* a task has switched to a peer device and sent a command over the second
\* connection it opened
C31_Witness ==
    \E i \in Tasks :
        \E c \in Events(i, "connect"), s \in Events(i, "send") :
            /\ trace[i][c].text = "ok" /\ trace[i][c].n = 2
            /\ trace[i][c].host = PeerId
            /\ c < s /\ trace[i][s].n = 2

(***************************************************************************)
(* C32.  The raw cache of a device audit only grows: an entry is never     *)
(* removed, and once an entry holds a captured text its value is never     *)
(* replaced by a different text for the rest of the audit.                 *)
(***************************************************************************)
\* the raw cache of every device keeps its entries and their texts in a step
RawKept ==
    \A device \in DOMAIN results :
        /\ device \in DOMAIN results'
        /\ \A key \in DOMAIN results[device].raw :
              /\ key \in DOMAIN results'[device].raw
              /\ results'[device].raw[key] = results[device].raw[key]

C32_RawCacheOnlyGrows == [][RawKept]_vars

(***************************************************************************)
(* C33.  Distinct (target device, command) pairs requested during one      *)
(* device audit never share a raw cache key, so no request is answered     *)
(* with text captured for another pair.                                    *)
(***************************************************************************)
\* the (target, command) pairs the task of entry i has requested so far
Requested(i) ==
    {<<trace[i][e].target, trace[i][e].cmd>> :
        e \in {e \in Events(i, "send") \cup Events(i, "handler") :
                 trace[i][e].target # None}}

C33_DistinctPairsDistinctKeys ==
    \A i \in Tasks :
        /\ \A p, q \in Requested(i) :
              p # q => RawKey(devices[i].device, p[1], p[2])
                         # RawKey(devices[i].device, q[1], q[2])
        /\ \A h \in Events(i, "handler") :
              \E s \in Events(i, "send") :
                  /\ s < h
                  /\ trace[i][s].target = trace[i][h].target
                  /\ trace[i][s].cmd = trace[i][h].cmd

(***************************************************************************)
(* C34.  After wait_for_completion, every record of the aggregate map has  *)
(* the complete produced shape: a status of PASS or FAIL, a login that is  *)
(* true or false (never null), and login false implies status FAIL with    *)
(* empty raw and facts.                                                    *)
(***************************************************************************)
\* a record as a task that ran to its end leaves it
ProducedShape(record) ==
    /\ record.status \in {PASS, FAIL}
    /\ record.login \in {"True", "False"}
    /\ record.login = "False" =>
          /\ record.status = FAIL
          /\ record.raw = EmptyMap
          /\ record.facts = EmptyMap

C34_CompleteShapeAfterWait ==
    caller.pc = "returned" =>
        \A device \in DOMAIN results : ProducedShape(results[device])

(***************************************************************************)
(* The routes of the application: results_run, which audits the devices of *)
(* a request and persists every record, and the saving of a view, which    *)
(* recomputes the stored status of the view's devices.                     *)
(***************************************************************************)
\* the record save_device_results_util stores first when a device has none
Placeholder(device_id) ==
    [login |-> None, hostname |-> device_id, raw |-> EmptyMap,
     facts |-> EmptyMap, checks |-> EmptyMap, status |-> 0]

\* the merge of save_device_results_util when clear_missing is false: a value
\* that is a dict on both sides is updated, any other value is replaced
MergeRecord(existing_data, data) ==
    [login |-> data.login,
     hostname |-> data.hostname,
     raw |-> Update(existing_data.raw, data.raw),
     facts |-> Update(existing_data.facts, data.facts),
     checks |-> Update(existing_data.checks, data.checks),
     status |-> data.status]

\* save_device_results_util(device_id, data, clear_missing) on the stores db
SaveDeviceResults(db, device_id, data, clear_missing) ==
    LET existing_data == IF device_id \in DOMAIN db THEN db[device_id]
                         ELSE Placeholder(device_id)
    IN Put(db, device_id,
           IF clear_missing THEN data ELSE MergeRecord(existing_data, data))

\* the loop of lines 219-221 over the records of the service, in the order
\* given
RECURSIVE SaveAll(_, _, _)
SaveAll(db, order, records) ==
    IF order = <<>> THEN db
    ELSE SaveAll(SaveDeviceResults(db, Head(order), records[Head(order)], FALSE),
                 Tail(order), records)

\* the checks of all views
AllChecks(views) == UNION {Range(views[view].checks) : view \in DOMAIN views}

\* lines 294-304: the stored record of a device after a view change
UponViewChange(device_results, all_checks) ==
    LET kept == {check \in DOMAIN device_results.checks : check \in all_checks}
        failing == {check \in kept :
                      device_results.checks[check].status \in {FAIL, ERROR}}
    IN [device_results EXCEPT
          !.checks = [check \in kept |-> device_results.checks[check]],
          !.status = IF device_results.login # "True" \/ failing # {}
                     THEN FAIL ELSE PASS]

\* the loop of lines 293-305 over the devices of the view
RECURSIVE UpdateUponViewChange(_, _, _)
UpdateUponViewChange(db, view_devices, all_checks) ==
    IF view_devices = <<>> THEN db
    ELSE LET device == Head(view_devices)
             device_results == IF device \in DOMAIN db THEN db[device]
                               ELSE Placeholder(device)
         IN UpdateUponViewChange(
                SaveDeviceResults(db, device,
                                  UponViewChange(device_results, all_checks), TRUE),
                Tail(view_devices), all_checks)

\* the thread of the routes is between two requests
Idle == caller.pc \in {"idle", "responded", "failed", "viewed"}

\* the ids a request may name: "r9" is a device without a stored session
RequestIds == {"sw1", "r9"}

\* the device lists of the requests: each names a device once (the rosters
\* that repeat an id are those of Init)
RequestLists ==
    {device_list \in SeqsOf(RequestIds, 1, MaxRoster) :
        \A a, b \in 1..Len(device_list) :
            a # b => device_list[a] # device_list[b]}

\* the check lists a view is saved with
ViewChecks == {<<>>, <<"ntp.py">>, <<"ios.py">>}

\* the service of a request: none before results_run has built the roster
NoService ==
    /\ devices' = <<>>
    /\ results' = EmptyMap
    /\ futures' = <<>>
    /\ task' = <<>>
    /\ trace' = <<>>

\* as ResultsRun, but a device without a stored session is left out of the
\* roster and the others are audited
ResultsRun_SkipsMissing ==
    /\ Idle
    /\ \E device_list \in RequestLists,
          view \in DOMAIN views_db \cup {None} :
         LET check_list == IF view # None THEN views_db[view].checks ELSE <<>>
             known == SelectSeq(device_list, LAMBDA d : d \in DOMAIN sessions_db)
         IN /\ request' = [route |-> "results_run", devices |-> device_list,
                           view |-> view, stored |-> results_db]
            /\ devices' = [k \in 1..Len(known) |->
                             Entry(known[k], check_list, sessions_db[known[k]])]
            /\ results' = EmptyMap
            /\ futures' = <<>>
            /\ task' = [k \in 1..Len(known) |-> NewTask]
            /\ trace' = [k \in 1..Len(known) |-> <<>>]
            /\ caller' = [pc |-> "start", seen |-> {}]
    /\ UNCHANGED <<max_workers, gatherers, net, views_db, sessions_db, results_db>>

\* results_run, lines 180-214: the roster of the request, or ValueError at
\* the first device without a stored session
ResultsRun ==
    /\ Idle
    /\ \E device_list \in RequestLists,
          view \in DOMAIN views_db \cup {None} :
         LET check_list == IF view # None THEN views_db[view].checks ELSE <<>>
         IN /\ request' = [route |-> "results_run", devices |-> device_list,
                           view |-> view, stored |-> results_db]
            /\ IF \E k \in 1..Len(device_list) : device_list[k] \notin DOMAIN sessions_db
               THEN /\ NoService
                    /\ caller' = [pc |-> "failed", seen |-> {}]
               ELSE /\ devices' = [k \in 1..Len(device_list) |->
                                     Entry(device_list[k], check_list,
                                           sessions_db[device_list[k]])]
                    /\ results' = EmptyMap
                    /\ futures' = <<>>
                    /\ task' = [k \in 1..Len(device_list) |-> NewTask]
                    /\ trace' = [k \in 1..Len(device_list) |-> <<>>]
                    /\ caller' = [pc |-> "start", seen |-> {}]
    /\ UNCHANGED <<max_workers, gatherers, net, views_db, sessions_db, results_db>>

\* results_run, lines 219-223: every record of the service is saved, in the
\* order the tasks stored their shells
Persist ==
    /\ caller.pc = "returned"
    /\ request.route = "results_run"
    /\ \E order \in SeqsOf(DOMAIN results, 0, Cardinality(DOMAIN results)) :
         /\ Range(order) = DOMAIN results
         /\ Len(order) = Cardinality(DOMAIN results)
         /\ results_db' = SaveAll(results_db, order, results)
    /\ caller' = [caller EXCEPT !.pc = "responded"]
    /\ UNCHANGED <<devices, max_workers, gatherers, net, results, futures, task,
                   trace, views_db, sessions_db, request>>

\* save_dataset_item("views"), lines 231-239: the view keeps its devices,
\* takes the checks of the payload, and the stored records of its devices
\* are updated
SaveView ==
    /\ Idle
    /\ \E key \in DOMAIN views_db, checks \in ViewChecks :
         LET views == [views_db EXCEPT ![key].checks = checks]
         IN /\ views_db' = views
            /\ results_db' = UpdateUponViewChange(results_db, views[key].devices,
                                                  AllChecks(views))
            /\ request' = [route |-> "save_view", devices |-> views[key].devices,
                           view |-> key, stored |-> results_db]
    /\ NoService
    /\ caller' = [pc |-> "viewed", seen |-> {}]
    /\ UNCHANGED <<max_workers, gatherers, net, sessions_db>>

\* the application with two views, the device sw1 saved with a session and
\* in both views, and endpoints that answer the same way each time
AppPlans ==
    {Stable(down, [h \in Hosts |-> x], FALSE, FALSE) :
        down \in SUBSET {"sw1"}, x \in Texts}

InitApp ==
    /\ views_db = [view \in {"core", "edge"} |->
                     [checks |-> IF view = "core" THEN <<"ntp.py">> ELSE <<"ios.py">>,
                      devices |-> <<"sw1">>]]
    /\ sessions_db = [d \in {"sw1"} |-> DirectSession]
    /\ results_db = [d \in {"sw1"} |-> Placeholder(d)]
    /\ request = NoCall
    /\ devices = <<>>
    /\ max_workers = DefaultMaxWorkers
    /\ gatherers = <<>>
    /\ net \in AppPlans
    /\ results = EmptyMap
    /\ futures = <<>>
    /\ task = <<>>
    /\ trace = <<>>
    /\ caller = [pc |-> "idle", seen |-> {}]

NextApp ==
    \/ ResultsRun
    \/ Persist
    \/ SaveView
    \/ Next

SpecApp == InitApp /\ [][NextApp]_vars

(***************************************************************************)
(* C35.  After results_run has persisted an audit of device D, the stored  *)
(* record satisfies: status is FAIL if and only if login is false or one   *)
(* of the stored checks has status FAIL or ERROR; also when the store held *)
(* results of an earlier audit of D with a different check list.           *)
(***************************************************************************)
\* the stored status agrees with the stored login and the stored checks
StatusAgrees(record) ==
    record.status = FAIL <=>
        \/ record.login = "False"
        \/ \E check \in DOMAIN record.checks :
              record.checks[check].status \in {FAIL, ERROR}

C35_StoredStatusAgrees ==
    (caller.pc = "responded" /\ request.route = "results_run") =>
        \A device \in Range(request.devices) :
            /\ device \in DOMAIN results_db
            /\ StatusAgrees(results_db[device])

(***************************************************************************)
(* C36.  update_device_results_upon_view_change leaves the stored overall  *)
(* status of a device unchanged whenever the view change removes none of   *)
(* the device's stored checks; for audited devices and for devices that    *)
(* were saved but never audited (login null, status 0).                    *)
(***************************************************************************)
\* a step in which the saving of a view has updated the stored records
ViewChanged == caller'.pc = "viewed" /\ request'.route = "save_view"

C36_StatusKeptByViewChange ==
    [][ViewChanged =>
          \A device \in DOMAIN results_db :
              DOMAIN results_db'[device].checks = DOMAIN results_db[device].checks
                  => results_db'[device].status = results_db[device].status]_vars

(***************************************************************************)
(* C37.  In results_run, when one device of the request has no stored      *)
(* session, the request fails before any audit task is submitted: no       *)
(* device of the request is connected to and no stored device result is    *)
(* modified.                                                               *)
(***************************************************************************)
\* the request being served is a results_run request that names a device
\* without a stored session
NamesUnknownDevice ==
    /\ request.route = "results_run"
    /\ \E device \in Range(request.devices) : device \notin DOMAIN sessions_db

C37_MissingSessionFailsFirst ==
    NamesUnknownDevice =>
        /\ caller.pc = "failed"
        /\ devices = <<>>
        /\ futures = <<>>
        /\ trace = <<>>
        /\ results = EmptyMap
        /\ results_db = request.stored

\* a request that names sw1 before a device without a session has failed,
\* the store holding the record of an earlier audit of sw1
C37_Witness ==
    /\ NamesUnknownDevice
    /\ caller.pc = "failed"
    /\ request.devices = <<"sw1", "r9">>
    /\ results_db["sw1"].login = "True"

====
